---- MODULE Spec2Model ----
(***************************************************************************)
(* BionicFlow: the App shell (src/types.ts), the Reader playback component *)
(* (src/components/Stats.tsx, second half) and the text utilities          *)
(* (src/unnamed/part_000), as a state machine.                             *)
(*                                                                         *)
(* One action is one browser task: an event handler (or a timeout          *)
(* callback) together with the React re-render and the effects it causes.  *)
(* Times are milliseconds (Date.now()).  A duration in seconds is kept as  *)
(* its numerator in milliseconds (seconds = ms / 1000).                    *)
(***************************************************************************)
EXTENDS Integers, Sequences, FiniteSets, TLC

VARIABLES
    appState,               \* App: appState
    words,                  \* App: words (the token sequence handed to Reader)
    stats,                  \* App: stats
    lastWpm,                \* App: lastWpm
    isDarkMode,             \* App: isDarkMode
    index,                  \* Reader: index (the cursor)
    isPlaying,              \* Reader: isPlaying
    wpm,                    \* Reader: wpm (the rate)
    sessionStartTimeRef,    \* Reader: sessionStartTimeRef.current
    totalPauseDurationRef,  \* Reader: totalPauseDurationRef.current
    pauseStartTimeRef,      \* Reader: pauseStartTimeRef.current
    timerRef,               \* Reader: timerRef.current
    timers,                 \* the browser's pending timeouts
    now,                    \* Date.now()
    storage,                \* localStorage[STORAGE_KEY]: <<>> when absent, else <<text>>
    storageWritable,        \* localStorage.setItem stores its value (it throws otherwise)
    sessionNo,              \* history: Reader sessions started so far
    rateInputs,             \* history: rate inputs (keys, sliders) made so far
    lastSeek,               \* history: Date.now() of this Reader's last seek input
    finishCalls,            \* history: handleFinish invocations of this Reader
    onFinishArgs,           \* history: the last call of onFinish
    playLog,                \* history: wall-clock facts of this Reader's session
    call,                   \* a function applied on its own: <<>> when none, else <<its arguments>>
    returned                \* what that application returned: <<>> before it returns, else <<value>>

vars == <<appState, words, stats, lastWpm, isDarkMode, index, isPlaying, wpm,
          sessionStartTimeRef, totalPauseDurationRef, pauseStartTimeRef,
          timerRef, timers, now, storage, storageWritable, sessionNo, rateInputs, lastSeek, finishCalls,
          onFinishArgs, playLog, call, returned>>

appVars == <<appState, words, stats, lastWpm, storage, storageWritable>>
refVars == <<sessionStartTimeRef, totalPauseDurationRef, pauseStartTimeRef>>
histVars == <<sessionNo, rateInputs, lastSeek, finishCalls, onFinishArgs>>
callVars == <<call, returned>>

----------------------------------------------------------------------------
(* Bounds of the model *)

\* the clock stops at StartTime + MaxElapsed
MaxElapsed == 300

\* number of words of the long sample text
LongTextWords == 11

\* Reader sessions started in one run of the application
MaxSessions == 2

\* rate inputs (ArrowUp, ArrowDown, slider moves) in one run of the application
MaxRateInputs == 2

\* timer handles are drawn from 1..MaxTimerId
MaxTimerId == 3

\* words of the text that is read for more than ten seconds at 100 words per
\* minute
SlowTextWords == 17

----------------------------------------------------------------------------
(* Program constants *)

DefaultWpm == 300
WpmStep == 50
MaxWpm == 2000
MinWpm == 100
SliderMax == 1500
JumpWords == 10
StepWords == 5
LongWordLength == 10
MsPerMinute == 60000
SignificantSeconds == 10
SignificantWords == 50

\* JavaScript null
Null == -1

\* JavaScript truthiness of a number-or-null
Truthy(x) == x # Null /\ x # 0

Min(a, b) == IF a < b THEN a ELSE b
Max(a, b) == IF a > b THEN a ELSE b

----------------------------------------------------------------------------
(* Text utilities.  A string is a sequence of one-character strings. *)

IsSpace(c) == c \in {" ", "\t", "\n"}

RECURSIVE TrimStart(_)
TrimStart(s) ==
    IF s # <<>> /\ IsSpace(Head(s)) THEN TrimStart(Tail(s)) ELSE s

RECURSIVE TrimEnd(_)
TrimEnd(s) ==
    IF s # <<>> /\ IsSpace(s[Len(s)]) THEN TrimEnd(SubSeq(s, 1, Len(s) - 1)) ELSE s

\* String.prototype.trim
Trim(s) == TrimEnd(TrimStart(s))

\* String.prototype.split(/\s+/): cur is the piece being read, acc the pieces read
RECURSIVE SplitWhitespace(_, _, _)
SplitWhitespace(s, cur, acc) ==
    IF s = <<>> THEN Append(acc, cur)
    ELSE IF IsSpace(Head(s)) THEN SplitWhitespace(TrimStart(s), <<>>, Append(acc, cur))
    ELSE SplitWhitespace(Tail(s), Append(cur, Head(s)), acc)

\* /[.,;?!]$/.test(word)
HasPunctuation(word) ==
    word # <<>> /\ word[Len(word)] \in {".", ",", ";", "?", "!"}

tokenizeText(text) ==
    LET rawWords == SplitWhitespace(Trim(text), <<>>, <<>>)
    IN  [i \in 1..Len(rawWords) |->
            [word |-> rawWords[i],
             originalIndex |-> i - 1,
             hasPunctuation |-> HasPunctuation(rawWords[i])]]

\* The texts a user loads: one word; a word with punctuation, a long word and
\* a plain word; LongTextWords plain words.
RECURSIVE RepeatWord(_)
RepeatWord(n) ==
    IF n <= 1 THEN <<"w">> ELSE <<"w", " ">> \o RepeatWord(n - 1)

Texts ==
    { <<"h", "i">>,
      <<"a", ",", " ", "e", "x", "t", "r", "a", "c", "t", "i", "o", "n", "s",
        "\n", "e", "x", "t", "r", "a", "c", "t", "i", "o", "n", "s", ".", " ">>,
      RepeatWord(LongTextWords) }

\* enum HighlightMode
HighlightModes == {"FIRST_LETTER", "FIRST_TWO", "FIRST_HALF", "ORP_OPTIMAL", "NONE"}

\* Math.ceil(len / 2)
CeilHalf(len) == (len + 1) \div 2

\* Math.ceil(len * 0.35): the double product rounds up to the same integer as
\* the exact 35 * len / 100 for every len up to 2000
CeilOrp(len) == (len * 35 + 99) \div 100

\* getHighlightRange with the case ORP_OPTIMAL aligned on the middle letter
getHighlightRange_OrpMiddle(word, mode) ==
    LET len == Len(word)
    IN  CASE mode = "FIRST_LETTER" -> [start |-> 0, end |-> 1, alignIndex |-> 0]
          [] mode = "FIRST_TWO" ->
                LET end == Min(2, len)
                IN  [start |-> 0, end |-> end, alignIndex |-> IF end = 2 THEN 1 ELSE 0]
          [] mode = "FIRST_HALF" ->
                LET end == CeilHalf(len)
                IN  [start |-> 0, end |-> end, alignIndex |-> (end - 1) \div 2]
          [] mode = "ORP_OPTIMAL" ->
                LET orpIndex == IF len <= 1 THEN 0 ELSE CeilHalf(len) - 1
                IN  [start |-> orpIndex, end |-> orpIndex + 1, alignIndex |-> orpIndex]
          [] mode = "NONE" ->
                [start |-> -1, end |-> -1, alignIndex |-> len \div 2]

\* getHighlightRange with the case FIRST_TWO ending at 2 whatever the length
getHighlightRange_NoMin(word, mode) ==
    LET len == Len(word)
    IN  CASE mode = "FIRST_LETTER" -> [start |-> 0, end |-> 1, alignIndex |-> 0]
          [] mode = "FIRST_TWO" ->
                [start |-> 0, end |-> 2, alignIndex |-> 1]
          [] mode = "FIRST_HALF" ->
                LET end == CeilHalf(len)
                IN  [start |-> 0, end |-> end, alignIndex |-> (end - 1) \div 2]
          [] mode = "ORP_OPTIMAL" ->
                LET orpIndex == IF len <= 1 THEN 0 ELSE CeilOrp(len) - 1
                IN  [start |-> orpIndex, end |-> orpIndex + 1, alignIndex |-> orpIndex]
          [] mode = "NONE" ->
                [start |-> -1, end |-> -1, alignIndex |-> len \div 2]

\* getHighlightRange: Math.floor is \div, which rounds towards minus infinity
getHighlightRange(word, mode) ==
    LET len == Len(word)
    IN  CASE mode = "FIRST_LETTER" -> [start |-> 0, end |-> 1, alignIndex |-> 0]
          [] mode = "FIRST_TWO" ->
                LET end == Min(2, len)
                IN  [start |-> 0, end |-> end, alignIndex |-> IF end = 2 THEN 1 ELSE 0]
          [] mode = "FIRST_HALF" ->
                LET end == CeilHalf(len)
                IN  [start |-> 0, end |-> end, alignIndex |-> (end - 1) \div 2]
          [] mode = "ORP_OPTIMAL" ->
                LET orpIndex == IF len <= 1 THEN 0 ELSE CeilOrp(len) - 1
                IN  [start |-> orpIndex, end |-> orpIndex + 1, alignIndex |-> orpIndex]
          [] mode = "NONE" ->
                [start |-> -1, end |-> -1, alignIndex |-> len \div 2]

----------------------------------------------------------------------------
(* App (src/types.ts) *)

EmptyStats == [totalWords |-> 0, totalTimeSeconds |-> 0, sessions |-> <<>>]

\* Number.prototype.toString of a non-negative integer
RECURSIVE NumberToString(_)
NumberToString(n) ==
    LET digit == <<"0", "1", "2", "3", "4", "5", "6", "7", "8", "9">>[(n % 10) + 1]
    IN  IF n < 10 THEN <<digit>> ELSE Append(NumberToString(n \div 10), digit)

\* Math.round of a duration of ms milliseconds, in seconds
RoundSeconds(ms) == (ms + 500) \div 1000

\* the condition of line 115: duration > 10 || wordsRead > 50
IsSignificant(wordsRead, durationMs) ==
    durationMs > SignificantSeconds * 1000 \/ wordsRead > SignificantWords

NewStats_Prepend(old, wordsRead, durationMs, finalWpm) ==
    IF IsSignificant(wordsRead, durationMs)
    THEN LET newSession == [id |-> NumberToString(now),
                            date |-> now,
                            wordsRead |-> wordsRead,
                            durationSeconds |-> RoundSeconds(durationMs),
                            wpm |-> finalWpm]
         IN  [totalWords |-> old.totalWords + wordsRead,
              totalTimeSeconds |-> old.totalTimeSeconds + RoundSeconds(durationMs),
              sessions |-> <<newSession>> \o old.sessions]
    ELSE old

\* the statistics handleReadingFinish leaves behind
NewStats(old, wordsRead, durationMs, finalWpm) ==
    IF IsSignificant(wordsRead, durationMs)
    THEN LET newSession == [id |-> NumberToString(now),
                            date |-> now,
                            wordsRead |-> wordsRead,
                            durationSeconds |-> RoundSeconds(durationMs),
                            wpm |-> finalWpm]
         IN  [totalWords |-> old.totalWords + wordsRead,
              totalTimeSeconds |-> old.totalTimeSeconds + RoundSeconds(durationMs),
              sessions |-> Append(old.sessions, newSession)]
    ELSE old

\* JSON.stringify of a statistics value: a text that JSON.parse gives the value
\* back from
JSONstringify(v) == [parses |-> TRUE, value |-> v]

\* a saved text JSON.parse throws a SyntaxError for
NotJSON == [parses |-> FALSE, value |-> <<>>]

\* the load effect: stats stays at its default when nothing is saved (or the
\* empty text) and when JSON.parse throws, and becomes whatever value the saved
\* text parses to otherwise
LoadedStats(saved) ==
    IF saved = <<>> THEN EmptyStats
    ELSE IF saved[1].parses THEN saved[1].value
    ELSE EmptyStats

\* the value has the fields of ReadingStats: stats.sessions is an array
WellFormedStats(s) == DOMAIN s = {"totalWords", "totalTimeSeconds", "sessions"}

\* what is on screen once appState is STATS: Stats reads stats.sessions.reduce
\* in its render, and a render that throws leaves nothing of the application
\* on screen (no error boundary)
StatsScreen(s) == IF WellFormedStats(s) THEN "STATS" ELSE "CRASHED"

\* handleReadingFinish throws: in [...stats.sessions, newSession] when
\* stats.sessions is not an array, in localStorage.setItem (saveStats has no
\* try/catch) when the store does not take the value
FinishThrows(wordsRead, durationMs) ==
    IsSignificant(wordsRead, durationMs) /\ (~WellFormedStats(stats) \/ ~storageWritable)

handleReadingFinish_StaysReading(wordsRead, durationMs, finalWpm) ==
    /\ lastWpm' = finalWpm
    /\ stats' = NewStats(stats, wordsRead, durationMs, finalWpm)
    /\ storage' = IF IsSignificant(wordsRead, durationMs)
                  THEN <<JSONstringify(NewStats(stats, wordsRead, durationMs, finalWpm))>>
                  ELSE storage
    /\ appState' = appState

\* handleReadingFinish, with saveStats. It runs inside the updater of setIndex:
\* an exception it throws is thrown by Reader's render, and React unmounts the
\* whole tree.
handleReadingFinish(wordsRead, durationMs, finalWpm) ==
    IF FinishThrows(wordsRead, durationMs)
    THEN /\ appState' = "CRASHED"
         /\ UNCHANGED <<lastWpm, stats, storage>>
    ELSE /\ lastWpm' = finalWpm
         /\ stats' = IF WellFormedStats(stats)
                     THEN NewStats(stats, wordsRead, durationMs, finalWpm)
                     ELSE stats
         /\ storage' = IF IsSignificant(wordsRead, durationMs)
                       THEN <<JSONstringify(NewStats(stats, wordsRead, durationMs, finalWpm))>>
                       ELSE storage
         /\ appState' = StatsScreen(stats')

----------------------------------------------------------------------------
(* Reader (src/components/Stats.tsx) *)

mounted == appState = "READING"

\* words[index] || { word: '', originalIndex: 0, hasPunctuation: false }
currentWordToken(idx) ==
    IF idx + 1 \in DOMAIN words
    THEN words[idx + 1]
    ELSE [word |-> <<>>, originalIndex |-> 0, hasPunctuation |-> FALSE]

getDelay_Compound(idx, w) ==
    LET tok == currentWordToken(idx)
        long == Len(tok.word) > LongWordLength
    IN  IF tok.hasPunctuation /\ long THEN [num |-> MsPerMinute * 195, den |-> w * 100]
        ELSE IF tok.hasPunctuation THEN [num |-> MsPerMinute * 15, den |-> w * 10]
        ELSE IF long THEN [num |-> MsPerMinute * 13, den |-> w * 10]
        ELSE [num |-> MsPerMinute, den |-> w]

\* getDelay, as the fraction num / den of a millisecond count
getDelay(idx, w) ==
    LET tok == currentWordToken(idx)
    IN  IF tok.hasPunctuation THEN [num |-> MsPerMinute * 15, den |-> w * 10]
        ELSE IF Len(tok.word) > LongWordLength THEN [num |-> MsPerMinute * 13, den |-> w * 10]
        ELSE [num |-> MsPerMinute, den |-> w]

\* window.setTimeout takes its delay as an integer number of milliseconds
TimeoutMs(d) == d.num \div d.den

stopTimer_NoClear(ref, tms) ==
    IF Truthy(ref)
    THEN [ref |-> Null, tms |-> tms]
    ELSE [ref |-> ref, tms |-> tms]

\* stopTimer: the handle and the pending timeouts it leaves
stopTimer(ref, tms) ==
    IF Truthy(ref)
    THEN [ref |-> Null, tms |-> {t \in tms : t.id # ref}]
    ELSE [ref |-> ref, tms |-> tms]

FreeTimerIds(tms) == (1..MaxTimerId) \ {t.id : t \in tms}

\* window.setTimeout: a handle that no pending timeout has
NewTimerId(tms) == CHOOSE i \in FreeTimerIds(tms) : \A j \in FreeTimerIds(tms) : i <= j

timerEffect_NoCleanup(ref, tms, idx, playing, w) ==
    LET stopped == stopTimer(ref, tms)
        id == NewTimerId(stopped.tms)
    IN  IF playing
        THEN [ref |-> id,
              tms |-> stopped.tms \cup
                        {[id |-> id,
                          fireAt |-> now + TimeoutMs(getDelay(idx, w)),
                          index |-> idx,
                          wpm |-> w]}]
        ELSE [ref |-> ref, tms |-> tms]

timerEffect_KeepsPending(ref, tms, idx, playing, w) ==
    LET cleaned == stopTimer(ref, tms)
        id == NewTimerId(cleaned.tms)
    IN  IF playing /\ tms # {}
        THEN [ref |-> ref, tms |-> tms]
        ELSE IF playing
        THEN [ref |-> id,
              tms |-> cleaned.tms \cup
                        {[id |-> id,
                          fireAt |-> now + TimeoutMs(getDelay(idx, w)),
                          index |-> idx,
                          wpm |-> w]}]
        ELSE cleaned

\* timerEffect with the timeout of a resume due at once
timerEffect_ResumesAtOnce(ref, tms, idx, playing, w) ==
    LET cleaned == stopTimer(ref, tms)
        stopped == stopTimer(cleaned.ref, cleaned.tms)
        id == NewTimerId(stopped.tms)
        resumed == ~isPlaying /\ playLog.everPaused
    IN  IF playing
        THEN [ref |-> id,
              tms |-> stopped.tms \cup
                        {[id |-> id,
                          fireAt |-> IF resumed THEN now
                                     ELSE now + TimeoutMs(getDelay(idx, w)),
                          index |-> idx,
                          wpm |-> w]}]
        ELSE cleaned

\* the timer effect of lines 193-209, run when one of its dependencies changed:
\* the previous run's cleanup, then the body
timerEffect(ref, tms, idx, playing, w) ==
    LET cleaned == stopTimer(ref, tms)
        stopped == stopTimer(cleaned.ref, cleaned.tms)
        id == NewTimerId(stopped.tms)
    IN  IF playing
        THEN [ref |-> id,
              tms |-> stopped.tms \cup
                        {[id |-> id,
                          fireAt |-> now + TimeoutMs(getDelay(idx, w)),
                          index |-> idx,
                          wpm |-> w]}]
        ELSE cleaned

\* the pause tracking effect of lines 232-237
pauseEffect(playing) ==
    IF ~playing /\ ~Truthy(pauseStartTimeRef) /\ Truthy(sessionStartTimeRef)
    THEN now
    ELSE pauseStartTimeRef

\* history: what the wall clock says about play and pause
LogPlay(playing) ==
    IF playing
    THEN [firstPlay |-> IF playLog.firstPlay = Null THEN now ELSE playLog.firstPlay,
          pauseBegin |-> Null,
          everPaused |-> playLog.everPaused]
    ELSE [playLog EXCEPT !.pauseBegin = now, !.everPaused = TRUE]

\* the timer effect's dependencies [index, isPlaying, getDelay, words.length,
\* handleFinish] differ from those of the last render: getDelay changes with wpm
\* and the current token, handleFinish with index, wpm and onFinish, and onFinish
\* with every render of App
TimerDepsChanged_NoIndex(idx, playing, w, dark) ==
    playing # isPlaying \/ w # wpm \/ dark # isDarkMode

\* TimerDepsChanged with getDelay and handleFinish taken as independent of wpm
TimerDepsChanged_NoWpm(idx, playing, w, dark) ==
    idx # index \/ playing # isPlaying \/ dark # isDarkMode

TimerDepsChanged(idx, playing, w, dark) ==
    idx # index \/ playing # isPlaying \/ w # wpm \/ dark # isDarkMode

\* A re-render of Reader with the given state, and the effects that follow it.
\* tms: the pending timeouts at the time of the render.
Render(idx, playing, w, dark, tms) ==
    LET depsChanged == TimerDepsChanged(idx, playing, w, dark)
        t == IF depsChanged THEN timerEffect(timerRef, tms, idx, playing, w)
             ELSE [ref |-> timerRef, tms |-> tms]
    IN  /\ (depsChanged /\ playing) => FreeTimerIds(tms \ {x \in tms : x.id = timerRef}) # {}
        /\ index' = idx
        /\ isPlaying' = playing
        /\ wpm' = w
        /\ isDarkMode' = dark
        /\ timerRef' = t.ref
        /\ timers' = t.tms
        /\ pauseStartTimeRef' =
              IF playing # isPlaying THEN pauseEffect(playing) ELSE pauseStartTimeRef
        /\ playLog' = IF playing # isPlaying THEN LogPlay(playing) ELSE playLog
        /\ UNCHANGED <<sessionStartTimeRef, totalPauseDurationRef>>

\* Reader leaves the screen: the cleanup of the timer effect
Unmount(ref, tms) ==
    /\ timerRef' = stopTimer(ref, tms).ref
    /\ timers' = stopTimer(ref, tms).tms

\* handleFinish with the operands of the duration swapped and no test of
\* sessionStartTimeRef (null counts as 0 in the subtraction)
handleFinish_Swapped(t) ==
    LET stopped == stopTimer(timerRef, timers \ {t})
        endTime == now
        sessionStart == IF Truthy(sessionStartTimeRef) THEN sessionStartTimeRef ELSE 0
        durationMs == sessionStart - endTime - totalPauseDurationRef
    IN  /\ isPlaying' = FALSE
        /\ finishCalls' = finishCalls + 1
        /\ onFinishArgs' = <<[wordsRead |-> t.index + 1,
                              durationMs |-> durationMs,
                              wpm |-> t.wpm,
                              endTime |-> endTime]>>
        /\ handleReadingFinish(t.index + 1, durationMs, t.wpm)
        /\ Unmount(stopped.ref, stopped.tms)
        /\ UNCHANGED <<index, wpm, isDarkMode, words, refVars, playLog, now, sessionNo, rateInputs,
                     lastSeek, storageWritable, callVars>>

\* handleFinish, called by the timeout t: index and wpm are those of the render
\* that scheduled t
handleFinish(t) ==
    LET stopped == stopTimer(timerRef, timers \ {t})
        endTime == now
        durationMs == IF Truthy(sessionStartTimeRef)
                      THEN endTime - sessionStartTimeRef - totalPauseDurationRef
                      ELSE 0
    IN  /\ isPlaying' = FALSE
        /\ finishCalls' = finishCalls + 1
        /\ onFinishArgs' = <<[wordsRead |-> t.index + 1,
                              durationMs |-> durationMs,
                              wpm |-> t.wpm,
                              endTime |-> endTime]>>
        /\ handleReadingFinish(t.index + 1, durationMs, t.wpm)
        /\ Unmount(stopped.ref, stopped.tms)
        /\ UNCHANGED <<index, wpm, isDarkMode, words, refVars, playLog, now, sessionNo, rateInputs,
                     lastSeek, storageWritable, callVars>>

----------------------------------------------------------------------------
(* Actions *)

\* The application after its first render and its mount effect, which loads the
\* saved statistics. saved: localStorage[STORAGE_KEY]; writable: the store
\* takes writes.
Boot(saved, writable) ==
    /\ appState = "IDLE"
    /\ words = <<>>
    /\ stats = LoadedStats(saved)
    /\ storage = saved
    /\ storageWritable = writable
    /\ lastWpm = DefaultWpm
    /\ isDarkMode \in BOOLEAN
    /\ index = 0
    /\ isPlaying = FALSE
    /\ wpm = DefaultWpm
    /\ sessionStartTimeRef = Null
    /\ totalPauseDurationRef = 0
    /\ pauseStartTimeRef = Null
    /\ timerRef = Null
    /\ timers = {}
    /\ now = 1000
    /\ sessionNo = 0
    /\ rateInputs = 0
    /\ lastSeek = Null
    /\ finishCalls = 0
    /\ onFinishArgs = <<>>
    /\ playLog = [firstPlay |-> Null, pauseBegin |-> Null, everPaused |-> FALSE]

\* no function is applied on its own
NoCall == call = <<>> /\ returned = <<>>

\* a first visit: nothing is saved, and the store takes writes
Init == Boot(<<>>, TRUE) /\ NoCall

\* time passes
Tick ==
    /\ \E d \in {100} : now + d <= 1000 + MaxElapsed /\ now' = now + d
    /\ UNCHANGED <<appVars, callVars, isDarkMode, index, isPlaying, wpm, refVars, timerRef,
                   timers, histVars, playLog>>

\* App.handleTextLoaded once the text is tokenized: setWords(tokens),
\* setAppState(READING); Reader mounts
LoadTokens(tokens) ==
    /\ appState = "IDLE"
    /\ sessionNo < MaxSessions
    /\ sessionNo' = sessionNo + 1
    /\ words' = tokens
    /\ appState' = "READING"
    /\ index' = 0
    /\ isPlaying' = FALSE
    /\ wpm' = lastWpm
    /\ sessionStartTimeRef' = Null
    /\ totalPauseDurationRef' = 0
    /\ pauseStartTimeRef' = Null
    /\ timerRef' = Null
    /\ lastSeek' = Null
    /\ finishCalls' = 0
    /\ onFinishArgs' = <<>>
    /\ playLog' = [firstPlay |-> Null, pauseBegin |-> Null, everPaused |-> FALSE]
    /\ UNCHANGED <<stats, storage, storageWritable, callVars, lastWpm, isDarkMode, timers, now,
                   rateInputs>>

\* a file is dropped or chosen: FileUpload.processFile hands its text to
\* App.handleTextLoaded unless it is blank
HandleTextLoaded ==
    \E text \in Texts : Len(Trim(text)) # 0 /\ LoadTokens(tokenizeText(text))

\* the Statistics button of the idle screen
ShowStats ==
    /\ appState = "IDLE"
    /\ appState' = StatsScreen(stats)
    /\ UNCHANGED <<words, stats, storage, storageWritable, callVars, lastWpm, isDarkMode, index,
                   isPlaying, wpm,
                   refVars, timerRef, timers, now, histVars, playLog>>

\* Stats.onBack
StatsBack ==
    /\ appState = "STATS"
    /\ appState' = "IDLE"
    /\ UNCHANGED <<words, stats, storage, storageWritable, callVars, lastWpm, isDarkMode, index,
                   isPlaying, wpm,
                   refVars, timerRef, timers, now, histVars, playLog>>

\* App.toggleDarkMode, from the idle screen or from Reader
ToggleTheme ==
    /\ appState \in {"IDLE", "READING"}
    /\ IF mounted
       THEN Render(index, isPlaying, wpm, ~isDarkMode, timers)
       ELSE /\ isDarkMode' = ~isDarkMode
            /\ UNCHANGED <<index, isPlaying, wpm, refVars, timerRef, timers, playLog>>
    /\ UNCHANGED <<appVars, callVars, now, histVars>>

ClickExit_Finalizes ==
    /\ mounted
    /\ finishCalls' = finishCalls + 1
    /\ onFinishArgs' = <<[wordsRead |-> index + 1, durationMs |-> 0, wpm |-> wpm,
                          endTime |-> now]>>
    /\ appState' = "IDLE"
    /\ Unmount(timerRef, timers)
    /\ UNCHANGED <<words, stats, storage, storageWritable, callVars, lastWpm, isDarkMode, index,
                   isPlaying, wpm,
                   refVars, now, sessionNo, rateInputs, lastSeek, playLog>>

\* Reader's exit button: onExit
ClickExit ==
    /\ mounted
    /\ appState' = "IDLE"
    /\ Unmount(timerRef, timers)
    /\ UNCHANGED <<words, stats, storage, storageWritable, callVars, lastWpm, isDarkMode, index,
                   isPlaying, wpm,
                   refVars, now, histVars, playLog>>

ReaderFrame == UNCHANGED <<appVars, callVars, now, histVars>>

RateFrame ==
    /\ rateInputs < MaxRateInputs
    /\ rateInputs' = rateInputs + 1
    /\ UNCHANGED <<appVars, callVars, now, sessionNo, lastSeek, finishCalls, onFinishArgs>>

\* a seek input, noted with its time
SeekFrame ==
    /\ lastSeek' = now
    /\ UNCHANGED <<appVars, callVars, now, sessionNo, rateInputs, finishCalls, onFinishArgs>>

\* Space: setIsPlaying(prev => !prev)
KeySpace ==
    /\ mounted
    /\ Render(index, ~isPlaying, wpm, isDarkMode, timers)
    /\ ReaderFrame

\* the play/pause button: setIsPlaying(!isPlaying)
ClickPlayPause ==
    /\ mounted
    /\ Render(index, ~isPlaying, wpm, isDarkMode, timers)
    /\ ReaderFrame

wpmUp_NoClamp(prev) == prev + WpmStep

\* ArrowUp's updater: prev => Math.min(prev + 50, 2000)
wpmUp(prev) == Min(prev + WpmStep, MaxWpm)

\* ArrowDown's updater: prev => Math.max(prev - 50, 100)
wpmDown(prev) == Max(prev - WpmStep, MinWpm)

KeyArrowUp ==
    /\ mounted
    /\ Render(index, isPlaying, wpmUp(wpm), isDarkMode, timers)
    /\ RateFrame

KeyArrowDown ==
    /\ mounted
    /\ Render(index, isPlaying, wpmDown(wpm), isDarkMode, timers)
    /\ RateFrame

KeyArrowLeft ==
    /\ mounted
    /\ Render(Max(index - JumpWords, 0), isPlaying, wpm, isDarkMode, timers)
    /\ SeekFrame

KeyArrowRight_NoClamp ==
    /\ mounted
    /\ Render(index + JumpWords, isPlaying, wpm, isDarkMode, timers)
    /\ SeekFrame

KeyArrowRight ==
    /\ mounted
    /\ Render(Min(index + JumpWords, Len(words) - 1), isPlaying, wpm, isDarkMode, timers)
    /\ SeekFrame

ClickRewind10 ==
    /\ mounted
    /\ Render(Max(0, index - JumpWords), isPlaying, wpm, isDarkMode, timers)
    /\ SeekFrame

ClickBack5 ==
    /\ mounted
    /\ Render(Max(0, index - StepWords), isPlaying, wpm, isDarkMode, timers)
    /\ SeekFrame

ClickForward5_NoClamp ==
    /\ mounted
    /\ Render(index + StepWords, isPlaying, wpm, isDarkMode, timers)
    /\ SeekFrame

ClickForward5 ==
    /\ mounted
    /\ Render(Min(Len(words) - 1, index + StepWords), isPlaying, wpm, isDarkMode, timers)
    /\ SeekFrame

\* the values the sliders are moved to: a range input reports a value of its
\* range, min + k * step
SettingsSliderValues == {v \in {MinWpm, SliderMax} : (v - MinWpm) % 10 = 0}
QuickSliderValues == {v \in {MinWpm, SliderMax} : (v - MinWpm) % 25 = 0}

\* the Speed slider of the settings panel
SettingsSlider ==
    /\ mounted
    /\ \E v \in SettingsSliderValues :
          Render(index, isPlaying, v, isDarkMode, timers)
    /\ RateFrame

\* the quick speed slider of the controls bar
QuickSlider ==
    /\ mounted
    /\ \E v \in QuickSliderValues :
          Render(index, isPlaying, v, isDarkMode, timers)
    /\ RateFrame

TimerFires_OffByOne ==
    /\ mounted
    /\ \E t \in timers :
          /\ now >= t.fireAt
          /\ IF index + 1 > Len(words)
             THEN handleFinish(t)
             ELSE /\ Render(index + 1, isPlaying, wpm, isDarkMode, timers \ {t})
                  /\ ReaderFrame

\* TimerFires advancing by two words
TimerFires_SkipsWord ==
    /\ mounted
    /\ \E t \in timers :
          /\ now >= t.fireAt
          /\ IF index + 1 >= Len(words)
             THEN handleFinish(t)
             ELSE /\ Render(Min(index + 2, Len(words) - 1), isPlaying, wpm, isDarkMode,
                            timers \ {t})
                  /\ ReaderFrame

\* a pending timeout fires: setIndex(prev => ...)
TimerFires ==
    /\ mounted
    /\ \E t \in timers :
          /\ now >= t.fireAt
          /\ IF index + 1 >= Len(words)
             THEN handleFinish(t)
             ELSE /\ Render(index + 1, isPlaying, wpm, isDarkMode, timers \ {t})
                  /\ ReaderFrame

Next ==
    \/ Tick
    \/ HandleTextLoaded
    \/ ShowStats
    \/ StatsBack
    \/ ToggleTheme
    \/ ClickExit
    \/ KeySpace
    \/ ClickPlayPause
    \/ KeyArrowUp
    \/ KeyArrowDown
    \/ KeyArrowLeft
    \/ KeyArrowRight
    \/ ClickRewind10
    \/ ClickBack5
    \/ ClickForward5
    \/ SettingsSlider
    \/ QuickSlider
    \/ TimerFires

Spec == Init /\ [][Next]_vars

----------------------------------------------------------------------------
(* The rate over its whole range: the rate inputs without the bound on their
   number, in sessions that are played to their end *)

RateArrowUp ==
    /\ mounted
    /\ Render(index, isPlaying, wpmUp(wpm), isDarkMode, timers)
    /\ ReaderFrame

RateArrowDown ==
    /\ mounted
    /\ Render(index, isPlaying, wpmDown(wpm), isDarkMode, timers)
    /\ ReaderFrame

RateSettingsSlider ==
    /\ mounted
    /\ \E v \in SettingsSliderValues :
          Render(index, isPlaying, v, isDarkMode, timers)
    /\ ReaderFrame

RateQuickSlider ==
    /\ mounted
    /\ \E v \in QuickSliderValues :
          Render(index, isPlaying, v, isDarkMode, timers)
    /\ ReaderFrame

NextRate ==
    \/ Tick
    \/ HandleTextLoaded
    \/ StatsBack
    \/ KeySpace
    \/ TimerFires
    \/ RateArrowUp
    \/ RateArrowDown
    \/ RateSettingsSlider
    \/ RateQuickSlider

SpecRate == Init /\ [][NextRate]_vars

----------------------------------------------------------------------------
(* Sessions long enough to be recorded: each is played from its first token to
   its last at one rate, without a pause, and time passes from one timeout's
   deadline to the next *)

\* tokenizeText(RepeatWord(n)), the tokens of a text of n plain words, written
\* out token by token
RepeatTokens(n) ==
    [i \in 1..n |-> [word |-> <<"w">>, originalIndex |-> i - 1, hasPunctuation |-> FALSE]]

\* the texts read, tokenized: one of more than fifty words, one of fewer that
\* takes more than ten seconds at 100 words per minute
RecorderTokens == {RepeatTokens(SignificantWords + 1), RepeatTokens(SlowTextWords)}

HandleRecorderTextLoaded ==
    \E tokens \in RecorderTokens : LoadTokens(tokens)

\* Space, pressed on a session that is not playing
PressPlay == ~isPlaying /\ KeySpace

\* the quick speed slider, moved before the session is played
SetRateBeforePlay == playLog.firstPlay = Null /\ RateQuickSlider

\* time passes until the pending timeout is due
WaitForTimer ==
    /\ mounted
    /\ \E t \in timers : t.fireAt > now /\ now' = t.fireAt
    /\ UNCHANGED <<appVars, callVars, isDarkMode, index, isPlaying, wpm, refVars, timerRef,
                   timers, histVars, playLog>>

NextRecorder ==
    \/ HandleRecorderTextLoaded
    \/ PressPlay
    \/ SetRateBeforePlay
    \/ WaitForTimer
    \/ TimerFires
    \/ ShowStats
    \/ StatsBack

\* statistics saved by an earlier visit: one session of sixty words
EarlierStats ==
    [totalWords |-> 60,
     totalTimeSeconds |-> 0,
     sessions |-> <<[id |-> NumberToString(900), date |-> 900, wordsRead |-> 60,
                     durationSeconds |-> 0, wpm |-> DefaultWpm]>>]

\* what localStorage[STORAGE_KEY] holds when the application starts: nothing, a
\* text that is not JSON, the statistics of an earlier visit
SavedValues == {<<>>, <<NotJSON>>, <<JSONstringify(EarlierStats)>>}

\* ... or JSON of another shape, { "totalWords": 0 }
SavedOtherShape == <<JSONstringify([totalWords |-> 0])>>

InitRecorder == \E saved \in SavedValues : Boot(saved, TRUE) /\ NoCall

SpecRecorder == InitRecorder /\ [][NextRecorder]_vars

\* the same sessions, in a browser whose store may hold any of these values
\* and may refuse writes (a full or disabled localStorage)
InitFaults ==
    \E saved \in SavedValues \cup {SavedOtherShape}, writable \in BOOLEAN :
        Boot(saved, writable) /\ NoCall

SpecFaults == InitFaults /\ [][NextRecorder]_vars

----------------------------------------------------------------------------
(* Reader on its own, rendered with an empty token sequence: words = [] is a
   value of its props' type, though App never hands it one (tokenizeText
   returns at least one token, and FileUpload lets no blank text through) *)

InitEmptyReader ==
    /\ appState = "READING"
    /\ words = <<>>
    /\ stats = EmptyStats
    /\ storage = <<>>
    /\ storageWritable = TRUE
    /\ lastWpm = DefaultWpm
    /\ isDarkMode \in BOOLEAN
    /\ index = 0
    /\ isPlaying = FALSE
    /\ wpm = DefaultWpm
    /\ sessionStartTimeRef = Null
    /\ totalPauseDurationRef = 0
    /\ pauseStartTimeRef = Null
    /\ timerRef = Null
    /\ timers = {}
    /\ now = 1000
    /\ sessionNo = 1
    /\ rateInputs = 0
    /\ lastSeek = Null
    /\ finishCalls = 0
    /\ onFinishArgs = <<>>
    /\ call = <<>>
    /\ returned = <<>>
    /\ playLog = [firstPlay |-> Null, pauseBegin |-> Null, everPaused |-> FALSE]

SpecEmptyReader == InitEmptyReader /\ [][Next]_vars

----------------------------------------------------------------------------
(* tokenizeText and getHighlightRange applied on their own, to every text of
   up to MaxTextLen characters and to every word of up to MaxWordLen letters
   in every mode *)

MaxTextLen == 4
MaxWordLen == 20

\* a letter, a punctuation mark and two kinds of whitespace
TextAlphabet == {"a", ".", " ", "\n"}

RECURSIVE StringsOfLength(_)
StringsOfLength(n) ==
    IF n = 0 THEN {<<>>}
    ELSE {Append(s, c) : s \in StringsOfLength(n - 1), c \in TextAlphabet}

RECURSIVE WordOfLength(_)
WordOfLength(n) == IF n = 0 THEN <<>> ELSE Append(WordOfLength(n - 1), "a")

TokenizeCalls ==
    {[fn |-> "tokenizeText", text |-> t] :
        t \in UNION {StringsOfLength(n) : n \in 0..MaxTextLen}}

HighlightCalls ==
    {[fn |-> "getHighlightRange", word |-> WordOfLength(n), mode |-> m] :
        n \in 0..MaxWordLen, m \in HighlightModes}

InitCalls ==
    /\ Boot(<<>>, TRUE)
    /\ call \in {<<c>> : c \in TokenizeCalls \cup HighlightCalls}
    /\ returned = <<>>

CallFrame ==
    UNCHANGED <<appVars, call, isDarkMode, index, isPlaying, wpm, refVars, timerRef,
                timers, now, histVars, playLog>>

ApplyTokenizeText ==
    /\ call # <<>> /\ returned = <<>>
    /\ call[1].fn = "tokenizeText"
    /\ returned' = <<tokenizeText(call[1].text)>>
    /\ CallFrame

ApplyGetHighlightRange ==
    /\ call # <<>> /\ returned = <<>>
    /\ call[1].fn = "getHighlightRange"
    /\ returned' = <<getHighlightRange(call[1].word, call[1].mode)>>
    /\ CallFrame

NextCalls == ApplyTokenizeText \/ ApplyGetHighlightRange

SpecCalls == InitCalls /\ [][NextCalls]_vars

----------------------------------------------------------------------------
(* Sessions played from the first word to the last without another input:
   the browser lets time pass and runs a timeout once it is due, which are
   the two fairness conditions *)

LiveTextWords == 60

\* "a, extractions\nextractions. ": a word with punctuation, a long word, a
\* long word with punctuation
MixedTokens ==
    tokenizeText(<<"a", ",", " ", "e", "x", "t", "r", "a", "c", "t", "i", "o", "n", "s",
                   "\n", "e", "x", "t", "r", "a", "c", "t", "i", "o", "n", "s", ".", " ">>)

LiveTokens == {RepeatTokens(LiveTextWords), MixedTokens}

HandleLiveTextLoaded ==
    \E tokens \in LiveTokens : LoadTokens(tokens)

\* the quick speed slider moved to 600 (100 + 20 * 25) before the session is
\* played
SetLiveRate ==
    /\ mounted
    /\ playLog.firstPlay = Null
    /\ \E v \in {600} :
          /\ (v - MinWpm) % 25 = 0
          /\ Render(index, isPlaying, v, isDarkMode, timers)
    /\ ReaderFrame

NextLive ==
    \/ HandleLiveTextLoaded
    \/ SetLiveRate
    \/ PressPlay
    \/ WaitForTimer
    \/ TimerFires
    \/ StatsBack

SpecLive ==
    /\ Init
    /\ [][NextLive]_vars
    /\ WF_vars(WaitForTimer)
    /\ WF_vars(TimerFires)

----------------------------------------------------------------------------
(* Properties *)

SeekStep ==
    KeyArrowLeft \/ KeyArrowRight \/ ClickRewind10 \/ ClickBack5 \/ ClickForward5

\* the session on screen (or the one last on screen) ended by the advance past
\* its last token
Finished == onFinishArgs # <<>>

\* C1: while a reading session is on screen the cursor is a valid index of the
\* token sequence: 0 <= index <= words.length - 1, whatever toggles, timer
\* advances, seeks and rate changes came before.
C1_CursorInRange ==
    mounted => (0 <= index /\ index <= Len(words) - 1)

\* C1 witness: a playing session whose cursor was moved by an unclamped jump of
\* ten words, after a rate change.
C1_Witness ==
    mounted /\ isPlaying /\ index = JumpWords /\ rateInputs > 0 /\ wpm # lastWpm

\* C2: at most one timeout is pending, it is the one timerRef holds, and it was
\* scheduled by the render of the current cursor and rate of a playing session:
\* no cancelled timeout is left to increment the cursor.
C2_OneTimerPending ==
    /\ Cardinality(timers) <= 1
    /\ \A t \in timers :
          /\ t.id = timerRef
          /\ mounted /\ isPlaying
          /\ t.index = index /\ t.wpm = wpm

\* C2 witness: a timeout pending for a cursor beyond the first token, scheduled
\* after an earlier one was cancelled by a rate change.
C2_Witness ==
    \E t \in timers : t.index > 0 /\ rateInputs > 0 /\ now > 1000

\* C3: handleFinish runs at most once per Reader session, and the timeout that
\* fires on the last token runs it for the first and only time and leaves the
\* reading view.
C3_FinalizedOnce ==
    /\ [](finishCalls <= 1)
    /\ [][(TimerFires /\ index + 1 >= Len(words))
            => (finishCalls = 0 /\ finishCalls' = 1 /\ appState' = "STATS")]_vars

\* C3 witness: a second session has finished, with one finalization of its own.
C3_Witness ==
    Finished /\ finishCalls = 1 /\ sessionNo = 2 /\ appState = "STATS"

\* C4 (as claimed): after an exit from a session that was played, the session
\* was finalized with wordsRead = cursor + 1.
C4_ExitFinalizes ==
    (appState = "IDLE" /\ sessionNo > 0 /\ playLog.firstPlay # Null)
        => (finishCalls = 1 /\ onFinishArgs[1].wordsRead = index + 1)

\* C4 (amended): the exit button cancels the pending timeout and returns to the
\* idle screen without finalizing: onFinish is not called, and the statistics,
\* the saved statistics and lastWpm stay as they were.
C4_ExitDiscards ==
    [][ClickExit
        => /\ appState' = "IDLE"
           /\ timers' = {}
           /\ UNCHANGED <<finishCalls, onFinishArgs, stats, storage, lastWpm>>]_vars

\* C4 witness: idle again after an exit from a session that was played and
\* never finalized.
C4_Witness ==
    /\ appState = "IDLE" /\ sessionNo > 0
    /\ playLog.firstPlay # Null /\ finishCalls = 0 /\ index > 0

\* C5: the wordsRead handed to onFinish is the cursor + 1, and it is the token
\* count, whatever seeks and rate changes the session saw.
C5_WordsRead ==
    Finished => /\ onFinishArgs[1].wordsRead = index + 1
                /\ onFinishArgs[1].wordsRead = Len(words)

\* C5 witness: a session over more than ten tokens finished after a rate change.
C5_Witness ==
    Finished /\ Len(words) > JumpWords /\ onFinishArgs[1].wpm # DefaultWpm

\* C6 (as claimed): a session that finished without a pause hands onFinish the
\* wall-clock time between its first play and its finish, with no pause time
\* accumulated.
C6_ActiveDuration ==
    (Finished /\ ~playLog.everPaused)
        => /\ totalPauseDurationRef = 0
           /\ onFinishArgs[1].durationMs = onFinishArgs[1].endTime - playLog.firstPlay

\* C7 (as claimed): a resume adds the time spent paused to
\* totalPauseDurationRef.
C7_PauseAccumulated ==
    [][(mounted /\ mounted' /\ ~isPlaying /\ isPlaying' /\ playLog.pauseBegin # Null)
        => totalPauseDurationRef' = totalPauseDurationRef + (now - playLog.pauseBegin)]_vars

\* C8: while a session is not playing no timeout is pending, and the cursor of
\* a session that is and stays not playing moves only by a seek.
C8_NoAdvanceWhilePaused ==
    /\ []((mounted /\ ~isPlaying) => timers = {})
    /\ [][(mounted /\ mounted' /\ sessionNo' = sessionNo /\ ~isPlaying /\ index' # index)
            => (SeekStep /\ ~isPlaying')]_vars

\* C8 witness: a session paused some time ago, beyond its first token.
C8_Witness ==
    /\ mounted /\ ~isPlaying /\ index > 0
    /\ playLog.pauseBegin # Null /\ now > playLog.pauseBegin

\* C9 (as claimed): once a session has been played, sessionStartTimeRef holds
\* the time of its first play.
C9_SessionStartRecorded ==
    (mounted /\ playLog.firstPlay # Null) => sessionStartTimeRef = playLog.firstPlay

\* C10: after the finish nothing of the session changes any more: no timeout
\* is pending, the Reader is off screen, and its cursor, play state, rate,
\* timer handle and time references stay as they are until a new session
\* starts.
C10_FinishedTerminal ==
    /\ [](Finished => (~mounted /\ ~isPlaying /\ timers = {} /\ timerRef = Null))
    /\ [][(Finished /\ sessionNo' = sessionNo)
            => UNCHANGED <<index, isPlaying, wpm, timerRef, timers, refVars,
                           finishCalls, onFinishArgs>>]_vars

\* C10 witness: a finished session, left behind for the idle screen.
C10_Witness ==
    Finished /\ appState = "IDLE" /\ now > onFinishArgs[1].endTime

\* the cursor a seek by delta words is claimed to reach
SeekTarget(delta) == Min(Max(index + delta, 0), Len(words) - 1)

\* what a seek is claimed to do and to leave alone
SeekEffect(delta) ==
    /\ index' = SeekTarget(delta)
    /\ UNCHANGED <<isPlaying, wpm, sessionStartTimeRef, pauseStartTimeRef,
                   totalPauseDurationRef>>
    /\ ~isPlaying => (timers' = {} /\ timerRef' = timerRef)

\* C11: each of the five seek controls (ArrowLeft and the rewind button -10,
\* ArrowRight +10, the back button -5, the forward button +5) sets the cursor
\* to min(max(index + delta, 0), words.length - 1), leaves isPlaying, wpm and
\* the three time references as they are, and schedules no timeout when the
\* session is not playing.
C11_SeekFrame ==
    /\ [][KeyArrowLeft => SeekEffect(-JumpWords)]_vars
    /\ [][ClickRewind10 => SeekEffect(-JumpWords)]_vars
    /\ [][KeyArrowRight => SeekEffect(JumpWords)]_vars
    /\ [][ClickBack5 => SeekEffect(-StepWords)]_vars
    /\ [][ClickForward5 => SeekEffect(StepWords)]_vars

\* C11 witness: a session that was played and paused, its cursor moved to the
\* sixth token by a seek while it was not playing, and nothing scheduled.
C11_Witness ==
    /\ mounted /\ ~isPlaying /\ playLog.everPaused
    /\ index = StepWords /\ timers = {} /\ now > playLog.pauseBegin

\* the timeout the timer effect schedules in the render that follows a step
ScheduledNow ==
    [id |-> timerRef',
     fireAt |-> now' + TimeoutMs(getDelay(index', wpm')),
     index |-> index',
     wpm |-> wpm']

\* C12 (as claimed): every seek of a playing session cancels the pending
\* timeout and schedules a new one with the delay of the new current token.
C12_SeekAlwaysReschedules ==
    [][(SeekStep /\ isPlaying) => timers' = {ScheduledNow}]_vars

\* C12 (amended): a seek of a playing session that changes the cursor cancels
\* the pending timeout and schedules one with the full delay of the new current
\* token; a seek whose clamped target is the current cursor leaves the pending
\* timeout and its deadline as they are. Either way one timeout is pending, for
\* the current cursor, and a timeout that fires before the last token moves the
\* cursor by exactly one from the cursor it was scheduled for.
C12_SeekReschedules ==
    /\ [][(SeekStep /\ isPlaying)
            => /\ IF index' # index
                  THEN timers' = {ScheduledNow}
                  ELSE UNCHANGED <<timers, timerRef>>
               /\ Cardinality(timers') = 1
               /\ \A t \in timers' : t.index = index']_vars
    /\ [][(TimerFires /\ mounted')
            => \E t \in timers : /\ now >= t.fireAt
                                 /\ t.index = index
                                 /\ index' = t.index + 1]_vars

\* C12 witness: a playing session whose cursor a seek moved to the sixth token
\* in the middle of the first token's delay, the new timeout scheduled at the
\* time of the seek.
C12_Witness ==
    /\ mounted /\ isPlaying /\ index = StepWords /\ now > playLog.firstPlay
    /\ \E t \in timers : /\ t.index = StepWords
                         /\ t.fireAt = now + TimeoutMs(getDelay(index, wpm))
                         /\ t.fireAt > playLog.firstPlay + TimeoutMs(getDelay(0, wpm))

\* ten times the multiplier claimed for a token: 15 with trailing punctuation,
\* else 13 with more than ten characters, else 10
ClaimedTenths(tok) ==
    IF HasPunctuation(tok.word) THEN 15
    ELSE IF Len(tok.word) > LongWordLength THEN 13
    ELSE 10

\* C14: the delay of the current token is (60000 / wpm) * m, m = 1.5 for a
\* token with trailing punctuation, else 1.3 for one of more than ten
\* characters, else 1 (1.5, not 1.5 * 1.3, for a long token with trailing
\* punctuation), and every timeout is scheduled that delay, in whole
\* milliseconds, after the render that scheduled it. The delay num / den is
\* compared with 60000 * m / wpm after division of both by 60000.
C14_DelayMultiplier ==
    /\ [](mounted =>
            LET d == getDelay(index, wpm)
            IN  /\ d.num % MsPerMinute = 0
                /\ (d.num \div MsPerMinute) * wpm * 10
                      = d.den * ClaimedTenths(words[index + 1]))
    /\ [][(timers' # timers /\ timers' # {})
            => \A t \in timers' :
                  t.fireAt = now' + (MsPerMinute * ClaimedTenths(words'[index' + 1]))
                                       \div (wpm' * 10)]_vars

\* C14 witness: a playing session at a token of more than ten characters with
\* trailing punctuation, at a rate that does not divide the minute, its timeout
\* pending 1.5 word times after now.
C14_Witness ==
    /\ mounted /\ isPlaying /\ wpm = DefaultWpm + WpmStep
    /\ HasPunctuation(words[index + 1].word)
    /\ Len(words[index + 1].word) > LongWordLength
    /\ \E t \in timers : t.fireAt = now + (MsPerMinute * 15) \div (wpm * 10)

\* C13: the rate of the Reader and the rate kept for the next session are
\* within [100, 2000] after any sequence of ArrowUp, ArrowDown and slider
\* inputs, over consecutive sessions that start at the rate the last finished
\* session ended with, the first at 300.
C13_RateInRange ==
    /\ MinWpm <= wpm /\ wpm <= MaxWpm
    /\ MinWpm <= lastWpm /\ lastWpm <= MaxWpm
    /\ sessionNo = 0 => (wpm = DefaultWpm /\ lastWpm = DefaultWpm)

\* C13 witness: a second session that started at 2000, the rate its
\* predecessor was raised to and finished with, and was lowered to the bottom
\* of the range, 100.
C13_Witness ==
    mounted /\ sessionNo = 2 /\ lastWpm = MaxWpm /\ wpm = MinWpm

C16_RecordedIffSignificant ==
    [][(finishCalls' = finishCalls + 1 /\ ~playLog.everPaused)
        => LET a == onFinishArgs'[1]
               activeMs == a.endTime - playLog.firstPlay
           IN  IF activeMs > SignificantSeconds * 1000 \/ a.wordsRead > SignificantWords
               THEN Len(stats'.sessions) = Len(stats.sessions) + 1
               ELSE UNCHANGED <<stats, storage>>]_vars

\* C17: the statistics are append-only: a step either leaves the statistics
\* and the saved statistics as they are, or it is the finish of a session and
\* adds exactly one record, that session's, after the sessions already there,
\* which stay as they are and in their order, and saves the result.
C17_AppendOnly ==
    [][\/ UNCHANGED <<stats, storage>>
       \/ /\ finishCalls' = finishCalls + 1
          /\ Len(stats'.sessions) = Len(stats.sessions) + 1
          /\ SubSeq(stats'.sessions, 1, Len(stats.sessions)) = stats.sessions
          /\ stats'.sessions[Len(stats'.sessions)].wordsRead = onFinishArgs'[1].wordsRead
          /\ stats'.sessions[Len(stats'.sessions)].date = now
          /\ storage' = <<JSONstringify(stats')>>]_vars

\* C17 witness: two sessions recorded after the one an earlier visit left, all
\* three saved, the earlier one still first.
C17_Witness ==
    /\ Len(stats.sessions) = 3
    /\ stats.sessions[1] = EarlierStats.sessions[1]
    /\ stats.sessions[2].date < stats.sessions[3].date
    /\ storage = <<JSONstringify(stats)>>

\* C18 (as claimed): a session that finished while the store refused writes
\* has left the reading view for the statistics view (or the idle screen after
\* it): the application is still on screen.
C18_SaveFailureNonFatal ==
    (Finished /\ ~storageWritable /\ WellFormedStats(stats))
        => appState \in {"STATS", "IDLE"}

\* the saved value is there, parses, and has the shape of the statistics
SavedUsable ==
    storage # <<>> /\ storage[1].parses /\ WellFormedStats(storage[1].value)

\* C19 (as claimed): with a saved value that is missing or corrupt the
\* application runs on the empty statistics, and stays on screen.
C19_LoadTolerant ==
    (sessionNo = 0 /\ ~SavedUsable) => (stats = EmptyStats /\ appState # "CRASHED")

\* C20 (as claimed): while the Reader on screen has an empty token sequence no
\* timeout is pending and it does not play, and no session with wordsRead >= 1
\* is finalized for the empty sequence.
C20_EmptyPlayRefused ==
    words = <<>> => /\ timers = {}
                    /\ ~isPlaying
                    /\ Finished => onFinishArgs[1].wordsRead < 1

----------------------------------------------------------------------------
(* Properties of tokenizeText and getHighlightRange *)

Tokenized == call # <<>> /\ returned # <<>> /\ call[1].fn = "tokenizeText"
Highlighted == call # <<>> /\ returned # <<>> /\ call[1].fn = "getHighlightRange"

\* C21: for every input string, no token of tokenizeText's result has an
\* empty word, and each token's originalIndex is its 0-based position in the
\* result.
C21_TokensNonEmptyIndexed ==
    Tokenized =>
        \A i \in 1..Len(returned[1]) :
            /\ returned[1][i].word # <<>>
            /\ returned[1][i].originalIndex = i - 1

\* the ceiling and the floor of a / b for a >= 0 and b > 0, by their
\* definitions as the least and the greatest integer
CeilOf(a, b) == CHOOSE c \in 0..a : c * b >= a /\ (c = 0 \/ (c - 1) * b < a)
FloorOf(a, b) == CHOOSE f \in 0..a : f * b <= a /\ (f + 1) * b > a

\* the range the table of modes gives a word of len >= 1 letters
TableRange(len, mode) ==
    CASE mode = "FIRST_LETTER" -> [start |-> 0, end |-> 1, alignIndex |-> 0]
      [] mode = "FIRST_TWO" ->
            [start |-> 0, end |-> IF len < 2 THEN len ELSE 2,
             alignIndex |-> IF len >= 2 THEN 1 ELSE 0]
      [] mode = "FIRST_HALF" ->
            [start |-> 0, end |-> CeilOf(len, 2),
             alignIndex |-> FloorOf(CeilOf(len, 2) - 1, 2)]
      [] mode = "ORP_OPTIMAL" ->
            LET idx == IF len <= 1 THEN 0 ELSE CeilOf(35 * len, 100) - 1
            IN  [start |-> idx, end |-> idx + 1, alignIndex |-> idx]
      [] mode = "NONE" ->
            [start |-> -1, end |-> -1, alignIndex |-> FloorOf(len, 2)]

\* C22: for every non-empty word, getHighlightRange returns the range of the
\* table: FIRST_LETTER (0, 1, 0); FIRST_TWO (0, min(2, len), 1 if end = 2 else
\* 0); FIRST_HALF (0, ceil(len/2), floor((end-1)/2)); ORP_OPTIMAL (idx, idx+1,
\* idx) with idx = 0 if len <= 1 else ceil(0.35 len) - 1; NONE (-1, -1,
\* floor(len/2)).
C22_HighlightTable ==
    (Highlighted /\ Len(call[1].word) >= 1) =>
        returned[1] = TableRange(Len(call[1].word), call[1].mode)

\* "apple" in the mode ORP_OPTIMAL: (1, 2, 1)
C22_Witness ==
    /\ Highlighted
    /\ Len(call[1].word) = 5 /\ call[1].mode = "ORP_OPTIMAL"
    /\ returned[1] = [start |-> 1, end |-> 2, alignIndex |-> 1]

\* C23: for every non-empty word and every mode, alignIndex is an index into
\* the word, and in every mode but NONE the highlighted span lies within the
\* word: 0 <= start < end <= len.
C23_RangeWithinWord ==
    (Highlighted /\ Len(call[1].word) >= 1) =>
        LET len == Len(call[1].word)
            r == returned[1]
        IN  /\ 0 <= r.alignIndex /\ r.alignIndex <= len - 1
            /\ call[1].mode # "NONE" => (0 <= r.start /\ r.start < r.end /\ r.end <= len)

\* a one-letter word in the mode FIRST_TWO: the span stops at the word's end
C23_Witness ==
    /\ Highlighted
    /\ Len(call[1].word) = 1 /\ call[1].mode = "FIRST_TWO"
    /\ returned[1].end = 1

\* C24: getHighlightRange on the empty word fails in every mode: it returns
\* no range.
C24_EmptyWordRejected ==
    ~(Highlighted /\ Len(call[1].word) = 0)

----------------------------------------------------------------------------
(* Properties of a session played to its end *)

\* the delays of the tokens 0..idx at the rate w, as setTimeout takes them
RECURSIVE SumDelays(_, _)
SumDelays(idx, w) ==
    IF idx < 0 THEN 0 ELSE TimeoutMs(getDelay(idx, w)) + SumDelays(idx - 1, w)

\* C25: a session played from the first token that receives no pause, seek,
\* rate change or exit eventually finishes; the advance pending on token i is
\* due when the delays of the tokens 0..i have passed since the play, so the
\* session finishes with the firing on its last token, every token read, after
\* the sum of the per-token delays.
C25_PlayedToTheEnd ==
    /\ (mounted /\ isPlaying) ~> Finished
    /\ [](mounted /\ isPlaying =>
            \A t \in timers : t.fireAt = playLog.firstPlay + SumDelays(index, wpm))
    /\ [](Finished =>
            /\ onFinishArgs[1].wordsRead = Len(words)
            /\ onFinishArgs[1].endTime - playLog.firstPlay =
                  SumDelays(Len(words) - 1, onFinishArgs[1].wpm))

\* LiveTextWords plain words at 600 words per minute: 100 ms each
C25_Witness ==
    /\ Finished
    /\ Len(words) = LiveTextWords
    /\ onFinishArgs[1].wpm = 600
    /\ onFinishArgs[1].endTime - playLog.firstPlay = LiveTextWords * 100

----------------------------------------------------------------------------
(* Properties of the time references and of the timeout after a resume or a
   rate change *)

C27_ResumeFullDelay ==
    /\ [][(mounted /\ mounted' /\ sessionNo' = sessionNo
             /\ playLog.everPaused /\ ~isPlaying /\ isPlaying')
            => (index' = index /\ timers' = {ScheduledNow})]_vars
    /\ [][TimerFires => \E t \in timers : t.index = index /\ now >= t.fireAt]_vars

\* the only word of a text, played at the first rate, paused and resumed: its
\* timeout is due later than the one the first play scheduled
C27_Witness ==
    /\ mounted /\ isPlaying /\ playLog.everPaused
    /\ index = 0 /\ Len(words) = 1 /\ rateInputs = 0 /\ lastSeek = Null
    /\ \E t \in timers :
          /\ t.fireAt = now + TimeoutMs(getDelay(index, wpm))
          /\ t.fireAt > playLog.firstPlay + TimeoutMs(getDelay(index, wpm))

\* C28 (as claimed): pauseStartTimeRef is set exactly while the session is
\* paused after it was played (played, not playing, not finished), and null
\* before the first play and while playing.
C28_PauseStartIffPaused ==
    mounted =>
        (pauseStartTimeRef # Null <=> (playLog.firstPlay # Null /\ ~isPlaying))

\* an input on a rate control: a keyboard step or one of the two sliders
RateStep == KeyArrowUp \/ KeyArrowDown \/ SettingsSlider \/ QuickSlider

\* C29: a rate change made while playing, by a keyboard step or by either
\* slider, replaces the pending timeout by one due the full delay of the
\* current token at the new rate after the change, and leaves the cursor and
\* isPlaying as they are; a rate change made while not playing schedules
\* nothing, and the play that follows schedules with the rate then in force.
C29_RateChangeReschedules ==
    /\ [][(RateStep /\ wpm' # wpm /\ isPlaying)
            => (index' = index /\ isPlaying' /\ timers' = {ScheduledNow})]_vars
    /\ [][(RateStep /\ wpm' # wpm /\ ~isPlaying)
            => (index' = index /\ ~isPlaying' /\ timers' = {} /\ timerRef' = timerRef)]_vars
    /\ [][(mounted /\ mounted' /\ sessionNo' = sessionNo /\ ~isPlaying /\ isPlaying')
            => (wpm' = wpm /\ timers' = {ScheduledNow})]_vars

\* the first word of a session that was neither paused nor sought, some time
\* after the play: its timeout was scheduled just now, at a rate other than
\* the one the session started with
C29_Witness ==
    /\ mounted /\ isPlaying /\ ~playLog.everPaused
    /\ index = 0 /\ lastSeek = Null
    /\ rateInputs > 0 /\ wpm # lastWpm
    /\ now > playLog.firstPlay
    /\ timers = {[id |-> timerRef,
                  fireAt |-> now + TimeoutMs(getDelay(index, wpm)),
                  index |-> index,
                  wpm |-> wpm]}

====
